---- MODULE Spec2Model ----
(***************************************************************************)
(* Model of app/dashboard.py: the localization setup (load_translations,   *)
(* the module-level translations table, t), and the Streamlit script run   *)
(* that gates the analytics and caches the persona title in                *)
(* st.session_state.                                                       *)
(*                                                                         *)
(* Text is modelled character by character: a string is a sequence over    *)
(* Chars, so that str.format is computed the way CPython computes it and   *)
(* its result can differ from its input.                                   *)
(***************************************************************************)
EXTENDS Integers, Sequences, FiniteSets, TLC

VARIABLES
    files,          \* locales/<code>.json on disk, per language code
    lang,           \* the lang_code load_translations was last called with
    translations,   \* the module global `translations` (line 57)
    pc,             \* "start" before load_translations has run, then "loaded"
    last,           \* the last call of t in this script run and its outcome
    repo,           \* the repository record of the card rendered last (tab1)
    health,         \* what calculate_health_score returned for it
    username,       \* the sidebar text input (line 81)
    ollama_model,   \* the model selectbox of tab3 (line 221)
    session_state,  \* st.session_state: the cached persona title
    cache,          \* the dataset save_data wrote and load_data reads
    run,            \* the last script run: its calls, messages and end
    generated       \* every title generate_user_title returned, in order, with the
                    \* username and model of the run that asked for it

i18nVars == <<files, lang, translations, pc, last>>
healthVars == <<repo, health>>
sessionVars == <<username, ollama_model, session_state, cache, run, generated>>

vars == <<files, lang, translations, pc, last, repo, health,
          username, ollama_model, session_state, cache, run, generated>>

----------------------------------------------------------------------------
(* Bounds *)

MaxLen == 4         \* longest template text in a translation file
MaxKeyLen == 3      \* longest key passed to t
MaxItems == 2       \* longest JSON array in a translation file
MaxFiles == 3       \* longest file listing of a repository
MaxBadKeys == 1     \* most entries of en.json whose text format rejects

----------------------------------------------------------------------------
(* Text *)

\* "n" is an ordinary letter (it can be a placeholder name), the braces are
\* the two characters str.format gives a meaning to.
Chars == {"n", "{", "}"}

RECURSIVE StringsOfLen(_)
StringsOfLen(k) ==
    IF k = 0 THEN {<<>>}
    ELSE {Append(s, c) : s \in StringsOfLen(k - 1), c \in Chars}

Strings(k) == UNION {StringsOfLen(i) : i \in 0..k}

\* The keyword arguments a caller passes to t: none, or n="x".
NoKwargs == <<>>
KwN == (<<"n">> :> <<"x">>)
KwargsSet == {NoKwargs, KwN}

Names(kwargs) == IF kwargs = NoKwargs THEN {} ELSE DOMAIN kwargs

Ok(s) == [exc |-> "none", out |-> s]
Raise(e) == [exc |-> e, out |-> <<>>]

\* Index of the first brace of s at or after i, 0 when there is none.
RECURSIVE NextBrace(_, _)
NextBrace(s, i) ==
    IF i > Len(s) THEN 0
    ELSE IF s[i] \in {"{", "}"} THEN i
    ELSE NextBrace(s, i + 1)

\* str.format(**kwargs) on s from position i, acc being the text produced so
\* far.  Fields are resolved left to right, and the first failure ends the
\* call: no positional argument is ever passed, so "{}" raises IndexError;
\* a name kwargs lacks raises KeyError; a brace that neither opens a field
\* nor is doubled raises ValueError.
RECURSIVE FormatFrom(_, _, _, _)
FormatFrom(s, i, kwargs, acc) ==
    IF i > Len(s) THEN Ok(acc)
    ELSE IF s[i] = "{" THEN
        IF i = Len(s) THEN Raise("ValueError")
        ELSE IF s[i + 1] = "{" THEN FormatFrom(s, i + 2, kwargs, Append(acc, "{"))
        ELSE LET j == NextBrace(s, i + 1) IN
             IF j = 0 THEN Raise("ValueError")
             ELSE IF s[j] = "{" THEN Raise("ValueError")
             ELSE LET name == SubSeq(s, i + 1, j - 1) IN
                  IF name = <<>> THEN Raise("IndexError")
                  ELSE IF name \in Names(kwargs)
                       THEN FormatFrom(s, j + 1, kwargs, acc \o kwargs[name])
                       ELSE Raise("KeyError")
    ELSE IF s[i] = "}" THEN
        IF i < Len(s) /\ s[i + 1] = "}"
        THEN FormatFrom(s, i + 2, kwargs, Append(acc, "}"))
        ELSE Raise("ValueError")
    ELSE FormatFrom(s, i + 1, kwargs, Append(acc, s[i]))

Format(s, kwargs) == FormatFrom(s, 1, kwargs, <<>>)

----------------------------------------------------------------------------
(* JSON values and the locale files *)

\* A value of a translation table, with s = str(value).
JStr(s) == [type |-> "str", s |-> s]
JNull == [type |-> "null", s |-> <<>>]
JNum == [type |-> "num", s |-> <<"1">>]

\* What json.load returns for a whole file: a dict, a list or a number.
JObject(m) == [type |-> "object", map |-> m, items |-> <<>>]
JArray(items) == [type |-> "array", map |-> <<>>, items |-> items]
JScalar == [type |-> "scalar", map |-> <<>>, items |-> <<>>]

EmptyDict == JObject(<<>>)

\* An element of a JSON array: a two-element list [k, v], or a number.
Pair(k, v) == [pair |-> TRUE, k |-> k, v |-> v]
NonPair == [pair |-> FALSE, k |-> <<>>, v |-> JNull]

\* A file of the locales directory.
Missing == [state |-> "missing", json |-> JScalar]
Unreadable == [state |-> "unreadable", json |-> JScalar]
Malformed == [state |-> "malformed", json |-> JScalar]
Json(j) == [state |-> "json", json |-> j]

Keys(m) == IF m = <<>> THEN {} ELSE DOMAIN m

\* The tables over the keys ks with values in vs.
Tables(ks, vs) == UNION {[d -> vs] : d \in SUBSET ks}

RECURSIVE SeqsOfLen(_, _)
SeqsOfLen(S, k) ==
    IF k = 0 THEN {<<>>}
    ELSE {Append(q, x) : q \in SeqsOfLen(S, k - 1), x \in S}

SeqsUpTo(S, k) == UNION {SeqsOfLen(S, i) : i \in 0..k}

----------------------------------------------------------------------------
(* load_translations *)

\* The language selector's options.
LANGUAGES == {"en", "es", "fr", "de"}

\* open(path) followed by json.load(f): the exception it raises, or the value.
ReadJson(file) ==
    IF file.state = "missing" THEN [exc |-> "FileNotFoundError", value |-> JScalar]
    ELSE IF file.state = "unreadable" THEN [exc |-> "PermissionError", value |-> JScalar]
    ELSE IF file.state = "malformed" THEN [exc |-> "JSONDecodeError", value |-> JScalar]
    ELSE [exc |-> "none", value |-> file.json]

\* dict.update over the elements of a list, in order: a two-element list
\* sets its key, anything else raises and leaves what was set before it.
RECURSIVE UpdateFromItems(_, _, _)
UpdateFromItems(m, items, i) ==
    IF i > Len(items) THEN [exc |-> "none", map |-> m]
    ELSE IF ~items[i].pair THEN [exc |-> "TypeError", map |-> m]
    ELSE UpdateFromItems(
             [k \in Keys(m) \cup {items[i].k} |->
                 IF k = items[i].k THEN items[i].v ELSE m[k]],
             items, i + 1)

\* translations.update(lang_data): the exception it raises and the table it
\* leaves behind.
Update(tr, data) ==
    IF tr.type # "object" THEN [exc |-> "AttributeError", value |-> tr]
    ELSE IF data.type = "object" THEN
        [exc |-> "none",
         value |-> JObject([k \in Keys(tr.map) \cup Keys(data.map) |->
                     IF k \in Keys(data.map) THEN data.map[k] ELSE tr.map[k]])]
    ELSE IF data.type = "array" THEN
        LET r == UpdateFromItems(tr.map, data.items, 1)
        IN [exc |-> r.exc, value |-> JObject(r.map)]
    ELSE [exc |-> "TypeError", value |-> tr]

\* Lines 21-27: the English file, or {} when it cannot be loaded.
LoadBase(fs) ==
    LET r == ReadJson(fs["en"])
    IN IF r.exc = "none" THEN r.value ELSE EmptyDict

\* A handler that resets the table when the overlay cannot be read.
ApplyOverlayReset(base, file) ==
    LET r == ReadJson(file)
    IN IF r.exc = "none" THEN Update(base, r.value).value ELSE EmptyDict

\* Lines 33-41: the overlay applied to the base; both handlers fall through
\* to the return, so whatever update did before failing stays.
ApplyOverlay(base, file) ==
    LET r == ReadJson(file)
    IN IF r.exc = "none" THEN Update(base, r.value).value ELSE base

\* The file locales/<lang_code>.json: any code names a path.
LocaleFile(fs, lang_code) ==
    IF lang_code \in DOMAIN fs THEN fs[lang_code] ELSE Missing

load_translations(fs, lang_code) ==
    IF lang_code = "en" THEN LoadBase(fs)
    ELSE ApplyOverlay(LoadBase(fs), LocaleFile(fs, lang_code))

----------------------------------------------------------------------------
(* t *)

\* A lookup that reads the locale files again.
LookupTableReload(tr, fs, code) == load_translations(fs, code)

\* The table a lookup reads: the module global, loaded once at line 57.
LookupTable(tr, fs, code) == tr

\* translations.get(key, key)
Get(tr, key) == IF key \in Keys(tr.map) THEN tr.map[key] ELSE JStr(key)

\* Lines 65-72.  Only KeyError is handled; a table that is no dict has no
\* get, and every other failure of format leaves the function.
t(tr, key, kwargs) ==
    IF tr.type # "object" THEN Raise("AttributeError")
    ELSE LET text == Get(tr, key) IN
         IF text.type = "null" THEN Ok(key)
         ELSE LET r == Format(text.s, kwargs)
              IN IF r.exc = "KeyError" THEN Ok(text.s) ELSE r

----------------------------------------------------------------------------
(* Repository health (tab1) *)

\* The paths a file listing is drawn from.
Paths == {"README.md", "LICENSE", ".github/workflows/ci.yml", "tests/test_app.py", "main.py"}

\* The checklist of the health scorer, in report order.
Checklist == <<"README", "license file", "CI config", "tests directory">>

\* The matcher of a checklist item against one path.
Matches(item, path) ==
    \/ item = "README" /\ path = "README.md"
    \/ item = "license file" /\ path = "LICENSE"
    \/ item = "CI config" /\ path = ".github/workflows/ci.yml"
    \/ item = "tests directory" /\ path = "tests/test_app.py"

Satisfied(item, listing) == \E i \in 1..Len(listing) : Matches(item, listing[i])

\* The cut points of the grade, in percent of the checklist.
GradeACut == 80
GradeBCut == 50

Grade(count) ==
    IF count * 100 >= GradeACut * Len(Checklist) THEN "A"
    ELSE IF count * 100 >= GradeBCut * Len(Checklist) THEN "B"
    ELSE "C"

\* A count of the matching files instead of the satisfied items.
SatisfiedCountPerFile(listing) ==
    Cardinality({i \in 1..Len(listing) :
                    \E j \in 1..Len(Checklist) : Matches(Checklist[j], listing[i])})

SatisfiedCount(listing) ==
    Cardinality({j \in 1..Len(Checklist) : Satisfied(Checklist[j], listing)})

calculate_health_score(repo_data) ==
    LET listing == repo_data.details.files
    IN [grade |-> Grade(SatisfiedCount(listing)),
        missing |-> SelectSeq(Checklist, LAMBDA item : ~Satisfied(item, listing)),
        satisfied_count |-> SatisfiedCount(listing)]

\* A record of repos_df: its "files" column may be absent.
Repos ==
    {[has_files |-> FALSE, files |-> <<>>]}
    \cup {[has_files |-> TRUE, files |-> q] : q \in SeqsUpTo(Paths, MaxFiles)}

\* Line 183: {"details": {"files": repo.get("files", [])}}
RepoDataStruct(r) == [details |-> [files |-> IF r.has_files THEN r.files ELSE <<>>]]

NoHealth == [grade |-> "none", missing |-> <<>>, satisfied_count |-> 0]

HealthIdle ==
    /\ repo = [has_files |-> FALSE, files |-> <<>>]
    /\ health = NoHealth

\* Lines 180-186: one repository card of the tab1 loop.
RenderCard(r) ==
    /\ repo' = r
    /\ health' = calculate_health_score(RepoDataStruct(r))
    /\ UNCHANGED <<i18nVars, sessionVars>>

----------------------------------------------------------------------------
(* The script run (lines 54-500) *)

\* What the user may type into the username input.
Usernames == {"", "Bob", "bob", "amy"}

\* The logins GitHub knows.
Logins == {"Bob", "amy"}

\* str.lower()
Lower(u) == IF u = "Bob" THEN "bob" ELSE u

Models == {"llama3.1", "mistral"}
DefaultModel == "llama3.1"

\* What the language model may answer as the persona title.
Titles == {"Code Wizard", "Night Owl"}

\* The dataset of one user: the profile's login, and whether it holds any
\* repository (and with it commits, languages and a README).
NoData == [present |-> FALSE, login |-> "", has_repos |-> FALSE]
Data(login, has_repos) == [present |-> TRUE, login |-> login, has_repos |-> has_repos]
Datasets == {Data(l, r) : l \in Logins, r \in BOOLEAN}

\* What fetch_all_data may return for a username: nothing, or that user's data.
FetchResults(u) == {NoData} \cup {d \in Datasets : Lower(d.login) = Lower(u)}

NoTitle == [has_title |-> FALSE, user_title |-> ""]
WithTitle(title) == [has_title |-> TRUE, user_title |-> title]

Buttons == {"sentiment", "skills", "improve", "forecast", "compare", "replay"}

\* A key of the UI, and the text format rejects for want of a positional argument.
Key(name) == <<name>>
BadText == JStr(<<"{", "}">>)

\* The keys looked up on the way to the gate and in the exception handler,
\* and the first key of the analytics.
BadKeys ==
    {"main_title", "fetching_spinner", "fetch_success", "enter_username_info",
     "cached_data_warning", "no_data_warning", "overview_header", "error_occurred"}

\* en.json: absent, or an object giving some of these keys such a text.
SessionLocales ==
    {Missing}
    \cup {Json(JObject([k \in {Key(b) : b \in bad} |-> BadText])) :
            bad \in {x \in SUBSET BadKeys : 1 <= Cardinality(x) /\ Cardinality(x) <= MaxBadKeys}}

\* The statements of the script that matter here, as data.
Look(keys) == [op |-> "look", name |-> "", keys |-> keys, kwargs |-> NoKwargs, data |-> NoData]
Call(name) == [op |-> "call", name |-> name, keys |-> <<>>, kwargs |-> NoKwargs, data |-> NoData]
Say(kind, key, kwargs) ==
    [op |-> "say", name |-> kind, keys |-> <<key>>, kwargs |-> kwargs, data |-> NoData]
Stop == [op |-> "stop", name |-> "", keys |-> <<>>, kwargs |-> NoKwargs, data |-> NoData]
SaveData(data) ==
    [op |-> "save_data", name |-> "", keys |-> <<>>, kwargs |-> NoKwargs, data |-> data]
Try == [op |-> "try", name |-> "", keys |-> <<>>, kwargs |-> NoKwargs, data |-> NoData]
Persona(title, u, m) ==
    [op |-> "persona", name |-> title, keys |-> <<u, m>>, kwargs |-> NoKwargs, data |-> NoData]
ShowPersona ==
    [op |-> "show_persona", name |-> "", keys |-> <<>>, kwargs |-> NoKwargs, data |-> NoData]
Button(key) ==
    [op |-> "button", name |-> key, keys |-> <<key>>, kwargs |-> NoKwargs, data |-> NoData]

\* Lines 77-97: the title and the sidebar.
Header ==
    <<Look(<<"main_title", "sidebar_header", "username_label", "token_label">>),
      Button("fetch_data_button")>>

\* Lines 97-121: the fetch button.
FetchHandler(clicked, fetched) ==
    IF ~clicked THEN <<>>
    ELSE <<Look(<<"fetching_spinner">>), Call("fetch_all_data")>>
         \o (IF fetched.present
             THEN <<SaveData(fetched), Say("success", "fetch_success", NoKwargs)>>
             ELSE <<Say("error", "fetch_error", NoKwargs)>>)

\* Lines 123-127.
UsernameGate(u) ==
    IF u = "" THEN <<Say("info", "enter_username_info", NoKwargs), Stop>> ELSE <<>>

\* Lines 136-137: loaded_user = login.lower(); loaded_user != username.lower()
SameUser(login, u) == Lower(login) = Lower(u)

\* Lines 131-144: load_data reads what save_data wrote.
DataGate(u, data) ==
    <<Call("TraditionalAnalyzer"), Call("load_data")>>
    \o (IF data.present /\ ~SameUser(data.login, u)
        THEN <<Say("warning", "cached_data_warning",
                   Key("loaded_user") :> <<Lower(data.login)>> @@ Key("username") :> <<u>>),
               Stop>>
        ELSE IF ~data.present
             THEN <<Say("warning", "no_data_warning", NoKwargs), Stop>>
             ELSE <<>>)

\* Lines 146-163.
Overview ==
    <<Call("get_basic_stats"),
      Look(<<"overview_header", "metric_total_repos", "metric_total_stars",
             "metric_commits_tracked", "tab_repos", "tab_languages", "tab_llm",
             "tab_forecasting", "tab_model_comparison">>)>>

\* Lines 165-208: one card for the repository, or the notice.
Tab1(data) ==
    <<Look(<<"subheader_clustering">>)>>
    \o (IF data.has_repos
        THEN <<Call("calculate_health_score"), Call("detect_tech_stack")>>
        ELSE <<Say("info", "clustering_info_no_data", NoKwargs)>>)

\* Lines 210-217.
Tab2(data) ==
    <<Look(<<"subheader_language">>)>>
    \o (IF data.has_repos
        THEN <<Look(<<"language_pie_title">>)>>
        ELSE <<Say("info", "language_info_no_data", NoKwargs)>>)

\* Lines 219-276.
Tab3(data, button) ==
    <<Look(<<"subheader_llm", "select_model_label">>), Call("OllamaAnalyzer"),
      Look(<<"analyze_sentiment_button">>)>>
    \o (IF button # "sentiment" THEN <<>>
        ELSE IF data.has_repos
             THEN <<Look(<<"sentiment_spinner">>), Call("analyze_sentiment")>>
             ELSE <<Say("info", "no_commits_info", NoKwargs)>>)
    \o <<Look(<<"skill_extraction_header">>)>>
    \o (IF ~data.has_repos THEN <<Say("info", "clustering_info_no_data", NoKwargs)>>
        ELSE <<Look(<<"select_repo_label", "extract_skills_button">>)>>
             \o (IF button = "skills"
                 THEN <<Look(<<"extracting_spinner">>), Call("extract_skills"),
                        Say("success", "skills_extracted_success", NoKwargs)>>
                 ELSE <<>>)
             \o (IF button = "improve" THEN <<Call("analyze_readme_quality")>> ELSE <<>>))

\* Lines 278-293.
Tab4(data, button) ==
    <<Look(<<"subheader_forecasting", "generate_forecast_button">>)>>
    \o (IF button # "forecast" THEN <<>>
        ELSE <<Look(<<"forecasting_spinner">>), Call("forecast_activity")>>
             \o (IF data.has_repos
                 THEN <<Look(<<"forecast_title">>)>>
                 ELSE <<Say("warning", "forecast_warning_not_enough", NoKwargs)>>))

\* Lines 295-308.
Tab5(button) ==
    <<Look(<<"subheader_comparison", "test_prompt_label", "compare_button">>)>>
    \o (IF button # "compare" THEN <<>>
        ELSE <<Look(<<"comparison_spinner">>), Call("compare_models")>>)

\* Lines 310-495.
Tab6(title, u, m) ==
    <<Call("get_user_stats"), Persona(title, u, m), ShowPersona, Call("get_basic_stats"),
      Call("get_timeline_events")>>

\* The script from line 77 on, for the widget values and what the calls
\* return; data is the dataset on disk when load_data runs.
Script(u, m, data, clicked, fetched, button, title) ==
    Header \o FetchHandler(clicked, fetched) \o UsernameGate(u)
    \o <<Try>> \o DataGate(u, data)
    \o Overview \o Tab1(data) \o Tab2(data) \o Tab3(data, button) \o Tab4(data, button)
    \o Tab5(button) \o Tab6(title, u, m)

\* The state a script run threads through its statements.  end is "running"
\* until st.stop() ("stopped"), an exception ("raised") or the last line.
StartRun(sess, data, gen) ==
    [calls |-> <<>>, shown |-> <<>>, end |-> "running", in_try |-> FALSE, persona |-> "",
     widgets |-> {}, session_state |-> sess, cache |-> data, generated |-> gen]

Running(st) == st.end = "running"

\* Regenerating the title on every run.
NeedsTitleAlways(sess) == TRUE

\* Line 316: "user_title" not in st.session_state
NeedsTitle(sess) == ~sess.has_title

\* One statement.  The argument of st.info and the like is evaluated before
\* the call, so a lookup that raises shows nothing.
Step(tr, ins, st) ==
    IF ins.op = "look" THEN
        IF \E i \in 1..Len(ins.keys) : t(tr, Key(ins.keys[i]), NoKwargs).exc # "none"
        THEN [st EXCEPT !.end = "raised"]
        ELSE st
    ELSE IF ins.op = "call" THEN [st EXCEPT !.calls = Append(@, ins.name)]
    ELSE IF ins.op = "say" THEN
        IF t(tr, Key(ins.keys[1]), ins.kwargs).exc # "none"
        THEN [st EXCEPT !.end = "raised"]
        ELSE [st EXCEPT !.shown = Append(@, <<ins.name, ins.keys[1]>>)]
    ELSE IF ins.op = "stop" THEN [st EXCEPT !.end = "stopped"]
    ELSE IF ins.op = "save_data" THEN
        [st EXCEPT !.calls = Append(@, "save_data"), !.cache = ins.data]
    ELSE IF ins.op = "try" THEN [st EXCEPT !.in_try = TRUE]
    ELSE IF ins.op = "button" THEN
        IF t(tr, Key(ins.name), NoKwargs).exc # "none"
        THEN [st EXCEPT !.end = "raised"]
        ELSE [st EXCEPT !.widgets = @ \cup {ins.name}]
    ELSE IF ins.op = "persona" THEN
        IF NeedsTitle(st.session_state)
        THEN [st EXCEPT !.calls = @ \o <<"OllamaAnalyzer", "generate_user_title">>,
                        !.session_state = WithTitle(ins.name),
                        !.generated = Append(@, [title |-> ins.name, username |-> ins.keys[1],
                                                 model |-> ins.keys[2]])]
        ELSE st
    ELSE [st EXCEPT !.persona = st.session_state.user_title]

\* Lines 497-500: the handler of the try block looks its message up too.
Handler(tr, st) ==
    IF t(tr, Key("error_occurred"), Key("error") :> <<"e">>).exc # "none"
    THEN [st EXCEPT !.end = "uncaught"]
    ELSE [st EXCEPT !.shown = Append(@, <<"error", "error_occurred">>), !.end = "done"]

\* How the run ends.
Finish(tr, st) ==
    IF st.end = "raised" THEN (IF st.in_try THEN Handler(tr, st) ELSE [st EXCEPT !.end = "uncaught"])
    ELSE IF Running(st) THEN [st EXCEPT !.end = "done"]
    ELSE st

\* The statements from the i-th on, each on the state the one before left.
RECURSIVE Exec(_, _, _, _)
Exec(tr, prog, i, st) ==
    IF i > Len(prog) \/ ~Running(st) THEN Finish(tr, st)
    ELSE CHOOSE r \in {Exec(tr, prog, i + 1, next) : next \in {Step(tr, prog[i], st)}} : TRUE

\* The dataset load_data finds: what this run's save_data wrote, if it ran.
DataOnDisk(data, clicked, fetched) == IF clicked /\ fetched.present THEN fetched ELSE data

\* One run of the script, top to bottom.
RunScript(tr, u, m, sess, data, gen, clicked, fetched, button, title) ==
    CHOOSE r \in {Exec(table, prog, 1, StartRun(sess, data, gen)) :
                    table \in {tr},
                    prog \in {Script(u, m, DataOnDisk(data, clicked, fetched), clicked,
                                     fetched, button, title)}} : TRUE

NoRun ==
    [calls |-> <<>>, shown |-> <<>>, end |-> "none", persona |-> "", widgets |-> {},
     clicked |-> FALSE, fetched |-> NoData]

SessionIdle ==
    /\ username = ""
    /\ ollama_model = DefaultModel
    /\ session_state = NoTitle
    /\ cache = NoData
    /\ run = NoRun
    /\ generated = <<>>

\* Whether the last run drew the widgets of tab3 / went through every tab.
DrewTab3 == \E i \in 1..Len(run.calls) : run.calls[i] = "OllamaAnalyzer"
DrewAllTabs == \E i \in 1..Len(run.calls) : run.calls[i] = "get_timeline_events"

\* The script reruns with the widget values u and m: line 57 first, then the rest.
Rerun(u, m, clicked, fetched, button, title) ==
    \E tr \in {load_translations(files, lang)} :
    \E r \in {RunScript(tr, u, m, session_state, cache, generated, clicked, fetched, button,
                         title)} :
       /\ translations' = tr
       /\ pc' = "loaded"
       /\ username' = u
       /\ ollama_model' = m
       /\ session_state' = r.session_state
       /\ cache' = r.cache
       /\ generated' = r.generated
       /\ run' = [calls |-> r.calls, shown |-> r.shown, end |-> r.end, persona |-> r.persona,
                  widgets |-> r.widgets, clicked |-> clicked, fetched |-> fetched]
       /\ UNCHANGED <<files, lang, last, healthVars>>

\* The selectbox keeps its value only while it is drawn.
ModelNow == IF DrewTab3 THEN ollama_model ELSE DefaultModel

\* The browser opens the page.
Open(title) ==
    /\ run = NoRun
    /\ Rerun(username, DefaultModel, FALSE, NoData, "none", title)

\* The user edits the username.
EnterUsername(u, title) ==
    /\ run # NoRun
    /\ u # username
    /\ Rerun(u, ModelNow, FALSE, NoData, "none", title)

\* The user picks a model in tab3.
SelectModel(m, title) ==
    /\ DrewTab3
    /\ m # ollama_model
    /\ Rerun(username, m, FALSE, NoData, "none", title)

\* The user clicks the fetch button of the sidebar, which the last run drew.
ClickFetch(fetched, title) ==
    /\ "fetch_data_button" \in run.widgets
    /\ Rerun(username, ModelNow, TRUE, fetched, "none", title)

\* The user clicks a button of the tabs.
ClickButton(button, title) ==
    /\ DrewAllTabs
    /\ Rerun(username, ModelNow, FALSE, NoData, button, title)

----------------------------------------------------------------------------
(* The locales directory and the calls of the resolver *)

\* "fr" stands for the supported overlays, "it" for a code the selector
\* does not offer.
Codes == {"en", "fr", "it"}

K1 == <<"n">>
K2 == <<"n", "n">>
TableKeys == {K1, K2}

BaseText == JStr(<<"n">>)
OverlayText == JStr(<<"n", "n">>)

BaseContents ==
    {Missing, Unreadable, Malformed, Json(JScalar), Json(JArray(<<>>))}
    \cup {Json(JObject(m)) : m \in Tables(TableKeys, {BaseText})}

OverlayItems == {Pair(K1, OverlayText), NonPair}

OverlayContents ==
    {Missing, Unreadable, Malformed, Json(JScalar)}
    \cup {Json(JObject(m)) : m \in Tables(TableKeys, {OverlayText, JNull})}
    \cup {Json(JArray(q)) : q \in SeqsUpTo(OverlayItems, MaxItems)}

\* English files whose one entry holds any text up to MaxLen, null or a number.
TemplateValues == {JStr(s) : s \in Strings(MaxLen)} \cup {JNull, JNum}

TemplateContents ==
    {Missing, Json(JArray(<<>>))}
    \cup {Json(JObject(K1 :> v)) : v \in TemplateValues}

\* What another process may leave in a locale file while the app runs.
EnvContents == {Missing, Json(JObject(K1 :> JStr(<<"{", "n", "}">>)))}

NoLookup == [called |-> FALSE, key |-> <<>>, kwargs |-> NoKwargs, result |-> Ok(<<>>)]
Lookup(key, kwargs, r) == [called |-> TRUE, key |-> key, kwargs |-> kwargs, result |-> r]

InitLoad ==
    /\ files \in [Codes -> BaseContents \cup OverlayContents]
    /\ files["en"] \in BaseContents
    /\ files["fr"] \in OverlayContents
    /\ files["it"] \in OverlayContents
    /\ lang = "en"
    /\ translations = EmptyDict
    /\ pc = "start"
    /\ last = NoLookup
    /\ HealthIdle
    /\ SessionIdle
    /\ HealthIdle
    /\ HealthIdle

InitLookup ==
    /\ \E c \in TemplateContents : files = [code \in Codes |-> IF code = "en" THEN c ELSE Missing]
    /\ lang = "en"
    /\ translations = EmptyDict
    /\ pc = "start"
    /\ last = NoLookup
    /\ HealthIdle
    /\ SessionIdle
    /\ HealthIdle
    /\ HealthIdle

InitLocale ==
    /\ files = [code \in Codes |->
                  IF code = "en" THEN Json(JObject(K1 :> BaseText @@ K2 :> BaseText))
                  ELSE IF code = "fr" THEN Json(JObject(K1 :> OverlayText))
                  ELSE Missing]
    /\ lang = "en"
    /\ translations = EmptyDict
    /\ pc = "start"
    /\ last = NoLookup
    /\ HealthIdle
    /\ SessionIdle
    /\ HealthIdle
    /\ HealthIdle

\* Line 57 of a script run: translations = load_translations(code).
LoadTranslations(code) ==
    /\ lang' = code
    /\ translations' = load_translations(files, code)
    /\ pc' = "loaded"
    /\ last' = NoLookup
    /\ UNCHANGED <<files, healthVars, sessionVars>>

\* A call t(key, **kwargs) after the table was loaded.
T(key, kwargs) ==
    /\ pc = "loaded"
    /\ last' = Lookup(key, kwargs, t(LookupTable(translations, files, lang), key, kwargs))
    /\ UNCHANGED <<files, lang, translations, pc, healthVars, sessionVars>>

\* Another process rewrites or removes a locale file.
EnvWrite(code, content) ==
    /\ files' = [files EXCEPT ![code] = content]
    /\ UNCHANGED <<lang, translations, pc, last, healthVars, sessionVars>>

NextLoad == \E code \in Codes : LoadTranslations(code)

NextLookup ==
    \/ LoadTranslations("en")
    \/ \E key \in Strings(MaxKeyLen), kwargs \in KwargsSet : T(key, kwargs)

NextLocale ==
    \/ \E code \in {"en", "fr"} : LoadTranslations(code)
    \/ \E key \in Strings(MaxKeyLen), kwargs \in KwargsSet : T(key, kwargs)
    \/ \E code \in {"en", "fr"}, content \in EnvContents : EnvWrite(code, content)

InitHealth ==
    /\ files = [code \in Codes |-> Missing]
    /\ lang = "en"
    /\ translations = EmptyDict
    /\ pc = "start"
    /\ last = NoLookup
    /\ HealthIdle
    /\ SessionIdle

NextHealth == \E r \in Repos : RenderCard(r)

SpecHealth == InitHealth /\ [][NextHealth]_vars
InitSession ==
    /\ \E c \in SessionLocales :
          files = [code \in Codes |-> IF code = "en" THEN c ELSE Missing]
    /\ lang = "en"
    /\ translations = EmptyDict
    /\ pc = "start"
    /\ last = NoLookup
    /\ HealthIdle
    /\ username \in Usernames
    /\ ollama_model = DefaultModel
    /\ session_state = NoTitle
    /\ cache \in {NoData} \cup Datasets
    /\ run = NoRun
    /\ generated = <<>>

Next ==
    \/ \E title \in Titles : Open(title)
    \/ \E u \in Usernames, title \in Titles : EnterUsername(u, title)
    \/ \E m \in Models, title \in Titles : SelectModel(m, title)
    \/ \E fetched \in FetchResults(username), title \in Titles : ClickFetch(fetched, title)
    \/ \E button \in Buttons, title \in Titles : ClickButton(button, title)

Spec == InitSession /\ [][Next]_vars

SpecLoad == InitLoad /\ [][NextLoad]_vars
SpecLookup == InitLookup /\ [][NextLookup]_vars
SpecLocale == InitLocale /\ [][NextLocale]_vars

----------------------------------------------------------------------------
(* Claims about the translation resolver *)

Loaded == pc = "loaded"

IsDict(v) == v.type = "object"

\* The keys of a locale file: those of the JSON object it holds.
FileKeys(file) ==
    IF file.state = "json" /\ IsDict(file.json) THEN Keys(file.json.map) ELSE {}

\* The placeholder names a text contains: every {name} outside doubled braces.
RECURSIVE FieldNames(_, _)
FieldNames(s, i) ==
    IF i > Len(s) THEN {}
    ELSE IF s[i] = "{" /\ i < Len(s) /\ s[i + 1] = "{" THEN FieldNames(s, i + 2)
    ELSE IF s[i] = "}" /\ i < Len(s) /\ s[i + 1] = "}" THEN FieldNames(s, i + 2)
    ELSE IF s[i] = "{" THEN
        LET j == NextBrace(s, i + 1) IN
        IF j = 0 \/ s[j] = "{" \/ j = i + 1 THEN FieldNames(s, i + 1)
        ELSE {SubSeq(s, i + 1, j - 1)} \cup FieldNames(s, j + 1)
    ELSE FieldNames(s, i + 1)

\* C1: neither load_translations nor t ever propagates an exception: every
\* call of t returns a value, whatever the locale files and the template hold.
C1_NeverRaises == last.called => last.result.exc = "none"

\* C2: for a key absent from the active table and any keyword arguments,
\* t returns exactly the key and raises nothing.
C2_AbsentKeyReturnsKey ==
    (last.called /\ IsDict(translations) /\ last.key \notin Keys(translations.map))
        => last.result = Ok(last.key)

\* C3: for a supported non-English code, every key of both the English file
\* and the overlay file maps to the overlay's value, and every key of the
\* English file alone maps to the English value.
C3_OverlayWins ==
    (Loaded /\ lang \in LANGUAGES \ {"en"}) =>
        /\ \A k \in FileKeys(files["en"]) \cap FileKeys(files[lang]) :
              /\ IsDict(translations)
              /\ k \in Keys(translations.map)
              /\ translations.map[k] = files[lang].json.map[k]
        /\ \A k \in FileKeys(files["en"]) \ FileKeys(files[lang]) :
              /\ IsDict(translations)
              /\ k \in Keys(translations.map)
              /\ translations.map[k] = files["en"].json.map[k]

\* C4 as stated: for every code outside the supported set the result is the
\* English base table, whatever files exist.
C4_UnsupportedIsBase ==
    (Loaded /\ lang \notin LANGUAGES) => translations = load_translations(files, "en")

\* C4 as amended: for every code outside the supported set whose locale file
\* is missing, unreadable or not valid JSON, the result is the English base
\* table.
C4_UnsupportedWithoutFileIsBase ==
    (Loaded /\ lang \notin LANGUAGES /\ files[lang].state # "json")
        => translations = load_translations(files, "en")

C4_Witness ==
    /\ Loaded
    /\ lang = "it"
    /\ files["it"].state = "unreadable"
    /\ FileKeys(files["fr"]) # {}
    /\ IsDict(translations)
    /\ Keys(translations.map) = TableKeys

\* The overlay file is missing, cannot be read or parsed, or holds JSON that
\* is no object.
OverlayFailed(file) == file.state # "json" \/ ~IsDict(file.json)

\* C5: when the overlay of a non-English code is missing or cannot be read
\* or applied, the result is the English base table unchanged: a failed
\* overlay is never partially applied.
C5_FailedOverlayLeavesBase ==
    (Loaded /\ lang # "en" /\ OverlayFailed(files[lang]))
        => translations = load_translations(files, "en")

\* C6: substitution is all-or-nothing: a template naming a placeholder that
\* kwargs lacks comes back unchanged and nothing is raised; the substituted
\* text comes back only when every named placeholder is supplied.
C6_AllOrNothing ==
    (last.called /\ IsDict(translations) /\ last.key \in Keys(translations.map)
       /\ translations.map[last.key].type = "str") =>
        LET text == translations.map[last.key].s
            missing == FieldNames(text, 1) \ Names(last.kwargs)
        IN /\ missing # {} => last.result = Ok(text)
           /\ (last.result.exc = "none" /\ last.result.out # text) => missing = {}

\* C8: a lookup changes neither the active table nor the locale files, and
\* within one script run the same key and arguments give the same outcome
\* on every call, whatever happens to the files in between.
C8_LookupsArePure ==
    [][/\ (last'.called /\ last' # last) => UNCHANGED <<files, translations>>
       /\ (last.called /\ last'.called /\ last'.key = last.key
             /\ last'.kwargs = last.kwargs) => last'.result = last.result]_vars

\* A lookup was answered from the loaded table although the files on disk
\* would by now give another table and another answer.
C8_Witness ==
    /\ last.called
    /\ last.result.exc = "none"
    /\ load_translations(files, lang) # translations
    /\ t(load_translations(files, lang), last.key, last.kwargs) # last.result

----------------------------------------------------------------------------
(* Claims about the health scorer *)

Range(q) == {q[i] : i \in 1..Len(q)}

\* C7: for every file listing the dashboard passes to the health scorer,
\* missing holds only checklist item names and
\* satisfied_count + len(missing) is the number of checklist items.
C7_HealthResultShape ==
    health # NoHealth =>
        /\ Range(health.missing) \subseteq Range(Checklist)
        /\ health.satisfied_count + Len(health.missing) = Len(Checklist)

\* A card whose listing names the README twice and lacks two other items.
C7_Witness ==
    /\ health # NoHealth
    /\ repo.has_files
    /\ Len(repo.files) > Cardinality(Range(repo.files))
    /\ health.satisfied_count >= 1
    /\ Len(health.missing) >= 2

----------------------------------------------------------------------------
(* Claims about the script run *)

Called(name) == \E i \in 1..Len(run.calls) : run.calls[i] = name

\* C9: within one session generate_user_title is called at most once; once
\* st.session_state holds a title no later rerun regenerates or changes it,
\* whatever the username, the data and the model are by then, and the
\* persona on display is the first one generated.
C9_PersonaGeneratedOnce ==
    /\ [](/\ Len(generated) <= 1
          /\ session_state.has_title =>
                Len(generated) = 1 /\ session_state.user_title = generated[1].title
          /\ run.persona # "" =>
                Len(generated) = 1 /\ run.persona = generated[1].title)
    /\ [][session_state.has_title =>
            session_state' = session_state /\ generated' = generated]_vars

\* The persona of an earlier run is on display, unchanged, in a run for
\* another username, another dataset and another model.
C9_Witness ==
    /\ run.persona # ""
    /\ ~Called("generate_user_title")
    /\ Len(generated) = 1
    /\ run.persona = generated[1].title
    /\ Lower(generated[1].username) # Lower(username)
    /\ generated[1].model # ollama_model
    /\ cache.login = "amy"

\* The calls the claim names: the statistics, the two repository helpers
\* and the language model's analyzer.
AnalyticsCalls ==
    {"get_basic_stats", "calculate_health_score", "detect_tech_stack", "OllamaAnalyzer",
     "analyze_sentiment", "extract_skills", "analyze_readme_quality", "compare_models",
     "generate_user_title"}

AnalyticsCalled == \E i \in 1..Len(run.calls) : run.calls[i] \in AnalyticsCalls

\* The run loaded the cached data and it is the entered user's.
Gated ==
    /\ username # ""
    /\ Called("load_data")
    /\ cache.present
    /\ Lower(cache.login) = Lower(username)

\* The message of the gate that turns this run away.
GateMessage ==
    IF username = "" THEN <<"info", "enter_username_info">>
    ELSE IF ~cache.present THEN <<"warning", "no_data_warning">>
    ELSE <<"warning", "cached_data_warning">>

\* C10: the analytics are rendered only if the username is non-empty, the
\* cached data was loaded and its login is the username ignoring case; in
\* every other case the run stops after showing the corresponding info or
\* warning and calls none of the analytics.
C10_GatedOrStopped ==
    run # NoRun =>
        /\ AnalyticsCalled => Gated
        /\ ~Gated =>
              /\ run.end = "stopped"
              /\ run.shown # <<>>
              /\ run.shown[Len(run.shown)] = GateMessage
              /\ ~AnalyticsCalled

\* The half of C10 that no lookup failure touches: no analytics without the gate.
C10_AnalyticsOnlyWhenGated == AnalyticsCalled => Gated

\* The other half of C10, for the runs in which no lookup raises.
C10_StoppedUnlessRaised ==
    (run # NoRun /\ ~Gated /\ run.end # "uncaught"
       /\ (run.shown = <<>> \/ run.shown[Len(run.shown)] # <<"error", "error_occurred">>))
        => /\ run.end = "stopped"
           /\ run.shown # <<>>
           /\ run.shown[Len(run.shown)] = GateMessage

\* How often the run called name, and whether it showed a message.
CallCount(name) == Cardinality({i \in 1..Len(run.calls) : run.calls[i] = name})
Shown(kind, key) == \E i \in 1..Len(run.shown) : run.shown[i] = <<kind, key>>

\* Every save_data of the run comes before its load_data.
SaveBeforeLoad ==
    \A i, j \in 1..Len(run.calls) :
        (run.calls[i] = "save_data" /\ run.calls[j] = "load_data") => i < j

\* What a click of the fetch button is to do in its run.
FetchedAndSaved ==
    /\ CallCount("fetch_all_data") = 1
    /\ Called("save_data") <=> run.fetched.present
    /\ run.fetched.present =>
          /\ CallCount("save_data") = 1
          /\ cache = run.fetched
          /\ Shown("success", "fetch_success")
          /\ ~Shown("error", "fetch_error")
    /\ ~run.fetched.present =>
          /\ Shown("error", "fetch_error")
          /\ ~Shown("success", "fetch_success")
    /\ SaveBeforeLoad

\* C11: on every click of the fetch button fetch_all_data is invoked once
\* and save_data is called exactly when it returned non-empty data: a
\* non-empty result is saved and the success message shown, an empty result
\* is never saved and the error message shown, and any save comes before
\* the same run's load_data.
C11_FetchThenSave == run.clicked => FetchedAndSaved

\* The half of C11 that no lookup failure touches: nothing is fetched
\* without a click, nothing is saved but the non-empty result of this run's
\* one fetch, before load_data, and no message contradicts what was done.
C11_SaveOnlyFetched ==
    /\ CallCount("fetch_all_data") <= 1
    /\ Called("fetch_all_data") => run.clicked
    /\ Called("save_data") =>
          /\ CallCount("save_data") = 1
          /\ Called("fetch_all_data")
          /\ run.fetched.present
          /\ cache = run.fetched
    /\ (Called("fetch_all_data") /\ ~run.fetched.present) => ~Called("save_data")
    /\ Shown("success", "fetch_success") => Called("save_data")
    /\ Shown("error", "fetch_error") => (Called("fetch_all_data") /\ ~Called("save_data"))
    /\ SaveBeforeLoad

\* The whole of C11, for the clicks whose run no lookup ends outside the try.
C11_FetchThenSaveUnlessRaised == (run.clicked /\ run.end # "uncaught") => FetchedAndSaved

\* A click whose fetch returned data, saved and read back by load_data.
C11_SavedThenLoaded ==
    /\ run.clicked
    /\ run.fetched.present
    /\ Called("save_data")
    /\ Called("load_data")
    /\ Shown("success", "fetch_success")

====
